---- MODULE Spec2Model ----
(***************************************************************************)
(* Feedback intake service (Django / Django REST framework).               *)
(*                                                                         *)
(* Text values are run-length encoded strings: a sequence of runs          *)
(* [c |-> token, n |-> count], the string being the tokens repeated and    *)
(* concatenated.  A token is a literal piece of text ("x", " ", ">",       *)
(* "&gt;", "<u>x</u>", ...), so every model value is a concrete string and *)
(* lengths are lengths in characters.  Time is counted in minutes.         *)
(***************************************************************************)
EXTENDS Integers, Sequences, FiniteSets, TLC

VARIABLES records, cache, now, last, sent, inflight

vars == <<records, cache, now, last, sent, inflight>>

(***************************************************************************)
(* Text                                                                    *)
(***************************************************************************)

R(c, n) == [c |-> c, n |-> n]

\* Tokens that are whitespace for str.strip(): the blank and the line break.
Whitespace == {" ", "\n"}

\* One balanced element per tag family: u is allowed in messages only,
\* b is in bleach's default allow-list only.
TagU == "<u>x</u>"
TagB == "<b>x</b>"
TagTokens == {TagU, TagB}

\* The text an element leaves behind when its tags are removed.
InnerText(c) == IF c \in TagTokens THEN "x" ELSE c

RECURSIVE Norm(_)
\* Adjacent runs of the same token are one run (string concatenation).
Norm(t) ==
    IF Len(t) < 2 THEN t
    ELSE LET r == Norm(Tail(t))
         IN IF t[1].c = r[1].c
            THEN <<R(t[1].c, t[1].n + r[1].n)>> \o Tail(r)
            ELSE <<t[1]>> \o r

RECURSIVE StrLen(_)
\* len(value)
StrLen(t) == IF t = <<>> THEN 0 ELSE Len(t[1].c) * t[1].n + StrLen(Tail(t))

RECURSIVE LStrip(_)
LStrip(t) == IF t # <<>> /\ t[1].c \in Whitespace THEN LStrip(Tail(t)) ELSE t

RECURSIVE RStrip(_)
RStrip(t) ==
    IF t # <<>> /\ t[Len(t)].c \in Whitespace
    THEN RStrip(SubSeq(t, 1, Len(t) - 1))
    ELSE t

\* str.strip()
Strip(t) == RStrip(LStrip(t))

\* str.lower() on one token
LowerTok(c) ==
    CASE c = "Casino" -> "casino"
      [] c = "J" -> "j"
      [] c = "Ex.org" -> "ex.org"
      [] c = "Mailinator.com" -> "mailinator.com"
      [] OTHER -> c

\* str.lower() on a text
Lower(t) == Norm([i \in 1..Len(t) |-> R(LowerTok(t[i].c), t[i].n)])

\* django.utils.html.strip_tags: every tag is removed, text and entities stay.
strip_tags(t) == Norm([i \in 1..Len(t) |-> R(InnerText(t[i].c), t[i].n)])

\* bleach.ALLOWED_TAGS (the default of bleach.clean) restricted to the
\* tags of the alphabet, and the allow-list used for messages.
BleachDefaultTags == {TagB}
MessageAllowedTags == {TagU}

\* bleach.clean(text, tags=allowed, strip=True): elements outside the
\* allow-list lose their tags, a bare ">" is escaped, entities stay.
BleachTok(c, allowed) ==
    IF c \in TagTokens THEN (IF c \in allowed THEN c ELSE "x")
    ELSE IF c = ">" THEN "&gt;"
    ELSE c

bleach_clean(t, allowed) ==
    Norm([i \in 1..Len(t) |-> R(BleachTok(t[i].c, allowed), t[i].n)])

HasTag(t, tags) == \E i \in 1..Len(t) : t[i].c \in tags
(***************************************************************************)
(* Field validation (FeedbackCreateSerializer)                             *)
(***************************************************************************)

\* Python's None (an absent optional field, a NULL column).
None == <<[c |-> "None", n |-> 0]>>

\* Python truthiness of an optional string.
Truthy(v) == v # None /\ v # <<>>

ThemeMin == 5
ThemeMax == 200
PersonMin == 2
PersonMax == 100
CompanyMax == 150
MessageMin == 10
MessageMax == 2000
\* the {10,} of the repeated-character pattern (.)\1{10,}
RepeatMin == 10

ACTOR_CHOICES == {"advertiser", "author", "question"}
STATUS_CHOICES == {"new", "completed", "rejected"}

spam_words == {"casino", "viagra", "free money", "click here", "win now"}

suspicious_domains ==
    {"tempmail.org", "10minutemail.com", "guerrillamail.com",
     "mailinator.com", "temp-mail.org"}

Ok(v) == [ok |-> TRUE, value |-> v]
Err == [ok |-> FALSE, value |-> <<>>]

\* any(word in clean_value.lower() for word in spam_words)
ContainsSpam(t) == \E i \in 1..Len(t) : LowerTok(t[i].c) \in spam_words

\* re.search(r'(.)\1{10,}', clean_value): one character, then the same
\* character at least RepeatMin more times; without re.DOTALL the dot
\* matches any character except a line break.
HasRepeatedChars(t) ==
    \E i \in 1..Len(t) :
        Len(t[i].c) = 1 /\ t[i].c # "\n" /\ t[i].n >= RepeatMin + 1

\* re.match(r'^[a-zA-Z...\s\-\.]+$', clean_value)
NameTokens == {"x", " ", "\n", "-", ".", "Casino", "casino"}
MatchesNamePattern(t) == t # <<>> /\ \A i \in 1..Len(t) : t[i].c \in NameTokens

\* The serializer field built from a model CharField/TextField: blank is
\* refused, surrounding whitespace is trimmed, then the declared
\* Min/MaxLengthValidator run on the submitted (not yet sanitized) value.
char_field(data, lo, hi) ==
    IF Strip(data) = <<>> THEN Err
    ELSE IF StrLen(Strip(data)) > hi \/ StrLen(Strip(data)) < lo THEN Err
    ELSE Ok(Strip(data))

validate_theme(value) ==
    IF value = <<>> \/ Strip(value) = <<>> THEN Err
    ELSE LET clean_value == Strip(strip_tags(value))
         IN IF StrLen(clean_value) < ThemeMin THEN Err
            ELSE IF StrLen(clean_value) > ThemeMax THEN Err
            ELSE IF ContainsSpam(clean_value) THEN Err
            ELSE Ok(clean_value)

validate_name_person(value) ==
    IF value = <<>> \/ Strip(value) = <<>> THEN Err
    ELSE LET clean_value == Strip(strip_tags(value))
         IN IF StrLen(clean_value) < PersonMin THEN Err
            ELSE IF StrLen(clean_value) > PersonMax THEN Err
            ELSE IF ~MatchesNamePattern(clean_value) THEN Err
            ELSE Ok(clean_value)

validate_name_company(value) ==
    IF Truthy(value)
    THEN LET clean_value == Strip(strip_tags(value))
         IN IF StrLen(clean_value) > CompanyMax THEN Err ELSE Ok(clean_value)
    ELSE Ok(value)

validate_message(value) ==
    IF value = <<>> \/ Strip(value) = <<>> THEN Err
    ELSE LET clean_value == Strip(bleach_clean(value, MessageAllowedTags))
         IN IF StrLen(clean_value) < MessageMin THEN Err
            ELSE IF StrLen(clean_value) > MessageMax THEN Err
            ELSE IF ContainsSpam(clean_value) THEN Err
            ELSE IF HasRepeatedChars(clean_value) THEN Err
            ELSE Ok(clean_value)

validate_actor(value) == IF value \in ACTOR_CHOICES THEN Ok(value) ELSE Err

(***************************************************************************)
(* E-mail addresses are token sequences: <<local, "@", domain>>, possibly  *)
(* with surrounding " " tokens.                                            *)
(***************************************************************************)

RECURSIVE TrimL(_)
TrimL(e) == IF e # <<>> /\ e[1] \in Whitespace THEN TrimL(Tail(e)) ELSE e

RECURSIVE TrimR(_)
TrimR(e) ==
    IF e # <<>> /\ e[Len(e)] \in Whitespace
    THEN TrimR(SubSeq(e, 1, Len(e) - 1))
    ELSE e

\* str.strip() on an address
Trim(e) == TrimR(TrimL(e))

\* str.lower() on an address
LowerAddr(e) == [i \in 1..Len(e) |-> LowerTok(e[i])]

LocalParts == {"j", "J", "k"}
Domains == {"ex.org", "Ex.org", "mailinator.com", "Mailinator.com"}

\* django.core.validators.EmailValidator: local@domain, nothing else.
EmailValidator(e) ==
    Len(e) = 3 /\ e[1] \in LocalParts /\ e[2] = "@" /\ e[3] \in Domains

\* The serializer's EmailField: blank refused, whitespace trimmed, syntax.
email_field(data) ==
    IF Trim(data) = <<>> THEN Err
    ELSE IF ~EmailValidator(Trim(data)) THEN Err
    ELSE Ok(Trim(data))

RECURSIVE Joined(_)
\* The text of a sequence of address tokens: their concatenation.
Joined(e) == IF e = <<>> THEN "" ELSE e[1] \o Joined(Tail(e))

\* value.split('@')[1].lower() if '@' in value else '': the text between
\* the first '@' and the next one (or the end), whitespace included.
DomainOf(value) ==
    IF \E i \in 1..Len(value) : value[i] = "@"
    THEN LET i == CHOOSE k \in 1..Len(value) :
                    value[k] = "@" /\ \A m \in 1..(k - 1) : value[m] # "@"
             later == {k \in (i + 1)..Len(value) : value[k] = "@"}
             j == IF later = {} THEN Len(value) + 1
                  ELSE CHOOSE k \in later : \A m \in later : k <= m
         IN Joined(LowerAddr(SubSeq(value, i + 1, j - 1)))
    ELSE ""

validate_email(value) ==
    IF value = <<>> THEN Err
    ELSE IF DomainOf(value) \in suspicious_domains THEN Err
    ELSE Ok(Trim(LowerAddr(value)))

(***************************************************************************)
(* Requests, identities, the store                                         *)
(***************************************************************************)

\* request.user: the anonymous user, a signed-in visitor, a staff member
\* (is_staff) and a superuser (is_staff and is_superuser).
Users == {"anon", "alice", "staff", "root"}
IsAuthenticated(u) == u # "anon"
\* The is_staff test left out.
EveryoneIsAdmin(u) == TRUE

IsAdminUser(u) == u \in {"staff", "root"}
IsSuperuser(u) == u = "root"

\* settings.BLOCKED_IPS as read by the create view.
BLOCKED_IPS == {"6.6.6.6"}

\* A forwarded-for header is the sequence of its comma-separated, stripped
\* addresses; <<>> is an absent (or empty) header.
get_client_ip(request) ==
    IF request.xff # <<>> THEN request.xff[1] ELSE request.remote

\* request.user.pk of the accounts: their rows in the users table.
UserPk == [alice |-> 7, staff |-> 1, root |-> 2]

RECURSIVE CommaJoined(_)
\* The text of a forwarded-for header without its whitespace.
CommaJoined(xff) ==
    IF Len(xff) = 1 THEN xff[1] ELSE xff[1] \o "," \o CommaJoined(Tail(xff))

\* BaseThrottle.get_ident with NUM_PROXIES unset: the whole forwarded-for
\* header, whitespace removed, when there is one, else the peer address.
\* The header is whatever text the client sent.
get_ident(request) ==
    IF request.xff # <<>> THEN CommaJoined(request.xff) ELSE request.remote

\* SimpleRateThrottle.cache_format = 'throttle_%(scope)s_%(ident)s': the
\* key is one text, and both throttles keep their histories in one cache.
cache_format(scope, ident) == "throttle_" \o scope \o "_" \o ident

\* get_cache_key returning None: the throttle lets the request through.
NoKey == ""

\* AnonRateThrottle.get_cache_key with scope 'feedback': no key for a
\* signed-in user.
anon_cache_key(request) ==
    IF IsAuthenticated(request.user) THEN NoKey
    ELSE cache_format("feedback", get_ident(request))

\* UserRateThrottle.get_cache_key with scope 'feedback_auth': the ident is
\* the user's pk, or the ident of an anonymous request.
user_cache_key(request) ==
    cache_format("feedback_auth",
                 IF IsAuthenticated(request.user)
                 THEN ToString(UserPk[request.user])
                 ELSE get_ident(request))

\* rate = '5/hour' and rate = '10/hour'; an hour in minutes.
AnonRate == 5
AuthRate == 10
ThrottleDuration == 60
\* timedelta(hours=1) of the duplicate check, in minutes.
DuplicateWindow == 60

\* cache.get(key, [])
CacheGet(c, key) == IF key \in DOMAIN c THEN c[key] ELSE <<>>

\* cache.set(key, history, duration)
CacheSet(c, key, history) == (key :> history) @@ c

\* The history with its expired entries left in.
KeepExpired(history, t) == history

RECURSIVE PopExpired(_, _)
\* while self.history and self.history[-1] <= self.now - self.duration: pop()
PopExpired(history, t) ==
    IF history # <<>> /\ history[Len(history)] <= t - ThrottleDuration
    THEN PopExpired(SubSeq(history, 1, Len(history) - 1), t)
    ELSE history

\* SimpleRateThrottle.allow_request on a history read from the cache at
\* time t (self.now): the verdict, and the history to write back on success.
allow_request(history, t, num_requests) ==
    LET h == PopExpired(history, t)
    IN IF Len(h) >= num_requests
       THEN [allowed |-> FALSE, write |-> FALSE, history |-> history]
       ELSE [allowed |-> TRUE, write |-> TRUE, history |-> <<t>> \o h]

\* Feedback.save(): the text fields are cleaned again before the row is
\* written; theme, name_person and name_company with bleach's default
\* allow-list, message with the message allow-list.
save(obj) ==
    [obj EXCEPT
       !.theme = IF Truthy(@) THEN bleach_clean(@, BleachDefaultTags) ELSE @,
       !.name_person = IF Truthy(@) THEN bleach_clean(@, BleachDefaultTags) ELSE @,
       !.name_company = IF Truthy(@) THEN bleach_clean(@, BleachDefaultTags) ELSE @,
       !.message = IF Truthy(@) THEN bleach_clean(@, MessageAllowedTags) ELSE @]

\* Serializer.to_internal_value: every field is validated, whatever the
\* others did; the result of each.
FieldResults(data) ==
    [actor |-> validate_actor(data.actor),
     theme |-> LET f == char_field(data.theme, ThemeMin, ThemeMax)
               IN IF f.ok THEN validate_theme(f.value) ELSE Err,
     email |-> LET f == email_field(data.email)
               IN IF f.ok THEN validate_email(f.value) ELSE Err,
     name_company |->
         IF data.name_company = None \/ Strip(data.name_company) = <<>>
         THEN validate_name_company(
                  IF data.name_company = None THEN None ELSE <<>>)
         ELSE LET f == char_field(data.name_company, 0, CompanyMax)
              IN IF f.ok THEN validate_name_company(f.value) ELSE Err,
     name_person |-> LET f == char_field(data.name_person, PersonMin, PersonMax)
                     IN IF f.ok THEN validate_name_person(f.value) ELSE Err,
     message |-> LET f == char_field(data.message, MessageMin, MessageMax)
                 IN IF f.ok THEN validate_message(f.value) ELSE Err]

FieldNames ==
    {"actor", "theme", "email", "name_company", "name_person", "message"}

\* serializer.errors after the field pass: the names of all failing fields.
field_errors(data) ==
    LET r == FieldResults(data) IN {f \in FieldNames : ~r[f].ok}

\* validated attrs
attrs_of(data) ==
    LET r == FieldResults(data) IN [f \in FieldNames |-> r[f].value]

\* The table is the sequence of its rows by primary key: row i has id i,
\* and the place of a row that was deleted holds Deleted (the database
\* does not give a primary key twice).
Deleted == [id |-> 0]

\* The primary keys of the rows the table holds.
Live(store) == {i \in 1..Len(store) : store[i] # Deleted}

\* A NULL in the ip_address or user_agent column.
Null == "NULL"

\* FeedbackCreateSerializer.validate: Feedback.objects.filter(email=...,
\* theme=..., created_at__gte=now - 1h).exists()
recent_feedback(store, attrs, t) ==
    \E i \in Live(store) :
        /\ store[i].email = attrs.email
        /\ store[i].theme = attrs.theme
        /\ store[i].created_at >= t - DuplicateWindow

\* The value a GenericIPAddressField writes to its column: the empty text
\* is written as NULL.
adapt_ipaddressfield_value(value) == IF value = "" THEN Null ELSE value

\* serializer.save(ip_address=..., user_agent=...): the row inserted;
\* auto_now_add and auto_now each read the clock, created_at first.
new_record(store, attrs, request, created, updated) ==
    save([id |-> Len(store) + 1,
          created_at |-> created,
          updated_at |-> updated,
          actor |-> attrs.actor,
          theme |-> attrs.theme,
          email |-> attrs.email,
          name_company |-> attrs.name_company,
          name_person |-> attrs.name_person,
          message |-> attrs.message,
          status |-> "new",
          ip_address |-> adapt_ipaddressfield_value(get_client_ip(request)),
          user_agent |-> request.ua])

\* The texts a GenericIPAddressField column takes as addresses.
IPAddresses == {"1.1.1.1", "2.2.2.2", "6.6.6.6", "9.9.9.9"}

\* The row fits the declared types of its columns: the max_length of the
\* CharField columns, an address (or NULL) in ip_address.
FitsColumns(r) ==
    /\ StrLen(r.theme) <= ThemeMax
    /\ StrLen(r.name_person) <= PersonMax
    /\ Truthy(r.name_company) => StrLen(r.name_company) <= CompanyMax
    /\ r.ip_address \in IPAddresses \cup {Null}

\* What the write of a row that does not fit its columns does is the
\* database's choice, which no source file settles: the row is stored as
\* it is (SQLite), or the statement fails with a DataError, nothing is
\* stored and the request is answered 500 (PostgreSQL).
insert_outcomes(row) ==
    IF FitsColumns(row) THEN {"stored"} ELSE {"stored", "DataError"}

\* Model.save() of an instance read earlier, first statement: UPDATE ...
\* WHERE id = pk sets every column of the row, updated_at to the time t
\* that auto_now read; it writes nothing when no row has that id.
update_row(store, row, t) ==
    IF row.id \in Live(store)
    THEN [store EXCEPT ![row.id] = [row EXCEPT !.updated_at = t]]
    ELSE store

\* Model.save(), second statement, issued when the UPDATE matched no row:
\* the instance is inserted under its id, created_at (auto_now_add) and
\* updated_at (auto_now) set to the times each read for the INSERT.
insert_row(store, row, created, updated) ==
    [store EXCEPT ![row.id] = [row EXCEPT !.created_at = created,
                                          !.updated_at = updated]]

\* timezone.now() and self.timer(): a request reads the clock between two
\* of its accesses to the cache or the table, the earlier one made at
\* time t, the later one being made now.
ClockReads(t) == {t, now}

(***************************************************************************)
(* Ghost record of the create requests, per quota identity: the time and   *)
(* the kind of each event the service logs.  No handler reads it.  The     *)
(* entries of an identity are kept in order of time and kind.              *)
(***************************************************************************)

\* Who a create request is for the throttles: the two cache keys it is
\* counted under.
Identity(request) == <<user_cache_key(request), anon_cache_key(request)>>

\* Two identities are counted under a common cache key.
SharesKey(a, b) == ({a[1], a[2]} \cap {b[1], b[2]}) \ {NoKey} # {}

InWindow(entries, t) == SelectSeq(entries, LAMBDA e : e.t > t - ThrottleDuration)

SentOf(log, key) == IF key \in DOMAIN log THEN log[key] ELSE <<>>

\* The events, in the order a request goes through them.
OutcomeOrder ==
    <<"csrf", "throttled", "admitted", "blocked", "invalid", "duplicate",
      "created", "error">>

Outcomes == {OutcomeOrder[i] : i \in 1..Len(OutcomeOrder)}

\* The events that end a request.
Answers == Outcomes \ {"admitted"}

OutcomeRank(o) == CHOOSE i \in 1..Len(OutcomeOrder) : OutcomeOrder[i] = o

Before(a, b) ==
    a.t < b.t \/ (a.t = b.t /\ OutcomeRank(a.o) <= OutcomeRank(b.o))

Logged(log, key, t, outcome) ==
    LET e == [t |-> t, o |-> outcome]
        s == SentOf(log, key)
    IN (key :> SelectSeq(s, LAMBDA x : Before(x, e)) \o <<e>>
               \o SelectSeq(s, LAMBDA x : ~Before(x, e)))
        @@ log

CountOutcome(log, key, t, outcomes) ==
    Len(SelectSeq(InWindow(SentOf(log, key), t), LAMBDA e : e.o \in outcomes))

(***************************************************************************)
(* The create request, FeedbackCreateView.  A request is handled by a      *)
(* worker, which reads and writes the cache and the table in separate      *)
(* steps, as the throttles (cache.get, then cache.set) and the serializer  *)
(* (the duplicate query, then the insert) do; the steps of other requests  *)
(* and the clock may come in between.                                      *)
(***************************************************************************)

Idle == [pc |-> "idle"]
Workers == {"w1", "w2"}

\* Some request is being handled.
Busy == \E w \in Workers : inflight[w] # Idle

\* A request is taken by w1 when it is idle, else by w2.
Free(w) == inflight[w] = Idle /\ (w = "w2" => inflight["w1"] # Idle)

NoRequest == [user |-> "anon", xff |-> <<>>, remote |-> "", ua |-> "",
              csrf |-> TRUE,
              data |-> [actor |-> "", theme |-> <<>>, email |-> <<>>,
                        name_company |-> None, name_person |-> <<>>,
                        message |-> <<>>]]

Response(op, request, code, errors, id) ==
    [op |-> op, req |-> request, code |-> code, errors |-> errors, id |-> id]

\* The places of a create request between its steps.
CreatePcs == {"anon_get", "anon_set", "auth_get", "auth_set", "validate", "save"}

\* A create request being handled: where it is, when it arrived, when it
\* made its last step, the self.history of the throttle at work, the
\* verdict of the first throttle, the validated attrs, and (for the
\* record) how many submissions of its identity had been accepted within
\* the hour when it arrived.
InFlight(pc, request, arrived, t, history, allowed, attrs, seen) ==
    [pc |-> pc, req |-> request, arrived |-> arrived, t |-> t,
     history |-> history, allowed |-> allowed, attrs |-> attrs, seen |-> seen]

\* The create requests of an identity answered so far or being handled.
Begun(key) ==
    Len(SelectSeq(SentOf(sent, key), LAMBDA e : e.o \in Answers))
    + Cardinality({w \in Workers :
                      /\ inflight[w].pc \in CreatePcs
                      /\ Identity(inflight[w].req) = key})

\* A worker takes a request.  csrf_protect on dispatch: a POST without a
\* valid token is answered 403 before the view runs; else initial()
\* starts with the first throttle.
Begin(w, request) ==
    /\ inflight[w] = Idle
    /\ IF ~request.csrf
       THEN /\ last' = Response("create", request, 403, {}, 0)
            /\ sent' = Logged(sent, Identity(request), now, "csrf")
            /\ inflight' = inflight
       ELSE /\ inflight' = [inflight EXCEPT
                   ![w] = InFlight("anon_get", request, now, now, <<>>, TRUE, <<>>,
                                   CountOutcome(sent, Identity(request),
                                                now, {"created"}))]
            /\ UNCHANGED <<last, sent>>
    /\ UNCHANGED <<records, cache, now>>

\* FeedbackRateThrottle: self.history = self.cache.get(self.key, []).  No
\* key, no throttling, for a signed-in user.
AnonGet(w) ==
    /\ inflight[w].pc = "anon_get"
    /\ LET f == inflight[w]
           ak == anon_cache_key(f.req)
       IN inflight' = [inflight EXCEPT ![w] =
              IF ak = NoKey
              THEN [f EXCEPT !.pc = "auth_get", !.t = now]
              ELSE [f EXCEPT !.pc = "anon_set",
                             !.t = now,
                             !.history = CacheGet(cache, ak)]]
    /\ UNCHANGED <<records, cache, now, last, sent>>

\* FeedbackRateThrottle: self.now = self.timer(), the expired entries
\* dropped, the length compared with the rate, and throttle_success
\* writing the history back with cache.set.
AnonSet(w) ==
    /\ inflight[w].pc = "anon_set"
    /\ \E f \in {inflight[w]} :
       \E t \in ClockReads(f.t) :
       \E a \in {allow_request(f.history, t, AnonRate)} :
          /\ cache' = IF a.write
                      THEN CacheSet(cache, anon_cache_key(f.req), a.history)
                      ELSE cache
          /\ inflight' = [inflight EXCEPT
                            ![w] = [f EXCEPT !.pc = "auth_get",
                                             !.t = now,
                                             !.allowed = a.allowed]]
    /\ UNCHANGED <<records, now, last, sent>>

\* AuthenticatedFeedbackRateThrottle: cache.get
AuthGet(w) ==
    /\ inflight[w].pc = "auth_get"
    /\ LET f == inflight[w]
       IN inflight' = [inflight EXCEPT ![w] =
              [f EXCEPT !.pc = "auth_set",
                        !.t = now,
                        !.history = CacheGet(cache, user_cache_key(f.req))]]
    /\ UNCHANGED <<records, cache, now, last, sent>>

\* AuthenticatedFeedbackRateThrottle: self.now, check and cache.set; then
\* check_throttles raises Throttled (answered 429 by handle_exception)
\* when a throttle refused, else the handler is entered.
AuthSet(w) ==
    /\ inflight[w].pc = "auth_set"
    /\ \E f \in {inflight[w]} :
       \E t \in ClockReads(f.t) :
       \E u \in {allow_request(f.history, t, AuthRate)} :
          /\ cache' = IF u.write
                      THEN CacheSet(cache, user_cache_key(f.req), u.history)
                      ELSE cache
          /\ IF f.allowed /\ u.allowed
             THEN /\ inflight' = [inflight EXCEPT
                                    ![w] = [f EXCEPT !.pc = "validate",
                                                     !.t = now]]
                  /\ sent' = Logged(sent, Identity(f.req), now, "admitted")
                  /\ last' = last
             ELSE /\ inflight' = [inflight EXCEPT ![w] = Idle]
                  /\ sent' = Logged(sent, Identity(f.req), now, "throttled")
                  /\ last' = Response("create", f.req, 429, {}, 0)
    /\ UNCHANGED <<records, now>>

\* create() up to serializer.is_valid(): blocklist, field validation and
\* validate(), which reads the clock and runs the duplicate query.
Validate(w) ==
    /\ inflight[w].pc = "validate"
    /\ \E f \in {inflight[w]} :
       \E errors \in {field_errors(f.req.data)} :
       \E attrs \in {attrs_of(f.req.data)} :
       \E t \in ClockReads(f.t) :
          IF get_client_ip(f.req) \in BLOCKED_IPS
          THEN /\ last' = Response("create", f.req, 403, {}, 0)
               /\ sent' = Logged(sent, Identity(f.req), now, "blocked")
               /\ inflight' = [inflight EXCEPT ![w] = Idle]
          ELSE IF errors # {}
          THEN /\ last' = Response("create", f.req, 400, errors, 0)
               /\ sent' = Logged(sent, Identity(f.req), now, "invalid")
               /\ inflight' = [inflight EXCEPT ![w] = Idle]
          ELSE IF recent_feedback(records, attrs, t)
          THEN /\ last' = Response("create", f.req, 400,
                                   {"non_field_errors"}, 0)
               /\ sent' = Logged(sent, Identity(f.req), now, "duplicate")
               /\ inflight' = [inflight EXCEPT ![w] = Idle]
          ELSE /\ UNCHANGED <<last, sent>>
               /\ inflight' = [inflight EXCEPT
                                 ![w] = [f EXCEPT !.pc = "save",
                                                  !.t = now,
                                                  !.attrs = attrs]]
    /\ UNCHANGED <<records, cache, now>>

\* serializer.save(): the clock read by auto_now_add and auto_now, the
\* insert, and the 201 answer with the new id; a DataError of the insert
\* is answered 500.
Save(w) ==
    /\ inflight[w].pc = "save"
    /\ \E f \in {inflight[w]} :
       \E t \in ClockReads(f.t) :
       \E u \in {v \in ClockReads(f.t) : t <= v} :
       \E row \in {new_record(records, f.attrs, f.req, t, u)} :
       \E outcome \in insert_outcomes(row) :
          IF outcome = "stored"
          THEN /\ records' = Append(records, row)
               /\ last' = Response("create", f.req, 201, {}, row.id)
               /\ sent' = Logged(sent, Identity(f.req), now, "created")
          ELSE /\ records' = records
               /\ last' = Response("create", f.req, 500, {}, 0)
               /\ sent' = Logged(sent, Identity(f.req), now, "error")
    /\ inflight' = [inflight EXCEPT ![w] = Idle]
    /\ UNCHANGED <<cache, now>>

(***************************************************************************)
(* The clock                                                               *)
(***************************************************************************)

TickSteps == {60, 61}

Tick(d) ==
    /\ now' = now + d
    /\ UNCHANGED <<records, cache, last, sent, inflight>>

(***************************************************************************)
(* FeedbackDetailView.update and the admin site                            *)
(***************************************************************************)

\* A key the request body does not carry.
Absent == "(absent)"

\* FeedbackListSerializer: 'status' is not among Meta.fields, and
\* read_only_fields = fields, so the serializer writes no model field.
list_serializer_writable == {}

\* The membership test of update left out.
AnyStatusIsValid(value) == TRUE

\* update_data['status'] in [choice[0] for choice in Feedback.STATUS_CHOICES]
valid_status(value) == value \in STATUS_CHOICES

\* update() up to serializer.is_valid(): admin only; get_object() reads
\* the row; only 'status' is taken from the body, and an unknown status is
\* refused.
UpdateGet(w, request) ==
    /\ inflight[w] = Idle
    /\ IF ~IsAdminUser(request.user)
       THEN /\ last' = Response("update", request, 403, {}, 0)
            /\ inflight' = inflight
       ELSE IF request.pk \notin Live(records)
       THEN /\ last' = Response("update", request, 404, {}, 0)
            /\ inflight' = inflight
       ELSE IF request.data.status # Absent
               /\ ~valid_status(request.data.status)
       THEN /\ last' = Response("update", request, 400, {"status"}, 0)
            /\ inflight' = inflight
       ELSE /\ last' = last
            /\ inflight' = [inflight EXCEPT
                   ![w] = [pc |-> "update_save", req |-> request, t |-> now,
                           instance |-> records[request.pk]]]
    /\ UNCHANGED <<records, cache, now, sent>>

\* ModelSerializer.update: the fields the serializer writes are set on the
\* instance read by get_object().
serializer_update(instance, data) ==
    IF "status" \in list_serializer_writable /\ data.status # Absent
    THEN [instance EXCEPT !.status = data.status]
    ELSE instance

\* serializer.save(): instance.save() cleans the instance, reads the clock
\* for updated_at and issues the UPDATE; the request is answered 200 when
\* the row is still there, else save() goes on to insert the instance.
UpdateSave(w) ==
    /\ inflight[w].pc = "update_save"
    /\ \E f \in {inflight[w]} :
       \E t \in ClockReads(f.t) :
          IF f.req.pk \in Live(records)
          THEN /\ records' = update_row(
                       records,
                       save(serializer_update(f.instance, f.req.data)), t)
               /\ last' = Response("update", f.req, 200, {}, f.req.pk)
               /\ inflight' = [inflight EXCEPT ![w] = Idle]
          ELSE /\ records' = records
               /\ last' = last
               /\ inflight' = [inflight EXCEPT
                                 ![w] = [f EXCEPT !.pc = "update_insert",
                                                  !.t = now]]
    /\ UNCHANGED <<cache, now, sent>>

\* instance.save() after an UPDATE of no row: the clock is read for
\* created_at and updated_at and the INSERT is issued; when a row with the
\* id is there again the INSERT fails (IntegrityError), which update()
\* does not catch: 500.
UpdateInsert(w) ==
    /\ inflight[w].pc = "update_insert"
    /\ \E f \in {inflight[w]} :
       \E t \in ClockReads(f.t) :
       \E u \in {v \in ClockReads(f.t) : t <= v} :
          IF f.req.pk \notin Live(records)
          THEN /\ records' = insert_row(
                       records,
                       save(serializer_update(f.instance, f.req.data)), t, u)
               /\ last' = Response("update", f.req, 200, {}, f.req.pk)
          ELSE /\ records' = records
               /\ last' = Response("update", f.req, 500, {}, 0)
    /\ inflight' = [inflight EXCEPT ![w] = Idle]
    /\ UNCHANGED <<cache, now, sent>>

\* mark_as_completed / mark_as_rejected / mark_as_new: queryset.update(status=...)
\* on the selected rows, one UPDATE statement; save() is not called.  The
\* changelist answers an action with a redirect to itself, and the admin
\* site sends whoever is not staff to its login page.
mark_as(request) ==
    /\ request.status \in STATUS_CHOICES
    /\ last' = Response("mark_as", request, 302, {}, 0)
    /\ IF ~IsAdminUser(request.user)
       THEN records' = records
       ELSE records' = [i \in 1..Len(records) |->
                          IF i \in request.ids /\ records[i] # Deleted
                          THEN [records[i] EXCEPT !.status = request.status]
                          ELSE records[i]]
    /\ UNCHANGED <<cache, now, sent, inflight>>

\* The fields of the admin forms, built from the model fields: the
\* declared validators on the typed, trimmed value; an empty company is
\* NULL (empty_value of the form field of a null=True column).
form_results(data) ==
    [actor |-> validate_actor(data.actor),
     theme |-> char_field(data.theme, ThemeMin, ThemeMax),
     email |-> email_field(data.email),
     name_company |->
         IF data.name_company = None \/ Strip(data.name_company) = <<>>
         THEN Ok(None)
         ELSE char_field(data.name_company, 0, CompanyMax),
     name_person |-> char_field(data.name_person, PersonMin, PersonMax),
     message |-> char_field(data.message, MessageMin, MessageMax)]

\* The admin change form on the row obj: for a superuser every content
\* field is a form field (the request names the theme typed in; the other
\* fields are posted back as stored), for other staff they are read-only
\* (get_readonly_fields) and the form holds the status alone.  The errors
\* of the form, and the instance it builds.
change_form(request, obj) ==
    LET status_errors ==
            IF request.status \in STATUS_CHOICES THEN {} ELSE {"status"}
    IN IF IsSuperuser(request.user)
       THEN LET r == form_results([actor |-> obj.actor,
                                   theme |-> request.theme,
                                   email |-> obj.email,
                                   name_company |-> obj.name_company,
                                   name_person |-> obj.name_person,
                                   message |-> obj.message])
            IN [errors |-> {f \in FieldNames : ~r[f].ok} \cup status_errors,
                instance |-> [obj EXCEPT !.actor = r.actor.value,
                                         !.theme = r.theme.value,
                                         !.email = r.email.value,
                                         !.name_company = r.name_company.value,
                                         !.name_person = r.name_person.value,
                                         !.message = r.message.value,
                                         !.status = request.status]]
       ELSE [errors |-> status_errors,
             instance |-> [obj EXCEPT !.status = request.status]]

\* The admin change view up to form.is_valid(): whoever is not staff is
\* sent to the login page; the row is read, and a request for a row that
\* is gone is answered with a redirect; an invalid form is shown again
\* (200) with its errors.
ChangeGet(w, request) ==
    /\ inflight[w] = Idle
    /\ IF ~IsAdminUser(request.user) \/ request.pk \notin Live(records)
       THEN /\ last' = Response("admin_change", request, 302, {}, 0)
            /\ inflight' = inflight
       ELSE \E form \in {change_form(request, records[request.pk])} :
               IF form.errors # {}
               THEN /\ last' = Response("admin_change", request, 200,
                                        form.errors, 0)
                    /\ inflight' = inflight
               ELSE /\ last' = last
                    /\ inflight' = [inflight EXCEPT
                           ![w] = [pc |-> "change_save", req |-> request,
                                   t |-> now, instance |-> form.instance]]
    /\ UNCHANGED <<records, cache, now, sent>>

\* save_model: obj.save() cleans the instance, reads the clock and issues
\* the UPDATE; response_change answers the saved form with a redirect;
\* when the row is gone save() goes on to insert the instance.
ChangeSave(w) ==
    /\ inflight[w].pc = "change_save"
    /\ \E f \in {inflight[w]} :
       \E t \in ClockReads(f.t) :
       \E row \in {save(f.instance)} :
       \E outcome \in insert_outcomes(row) :
          IF f.req.pk \notin Live(records)
          THEN /\ records' = records
               /\ last' = last
               /\ inflight' = [inflight EXCEPT
                                 ![w] = [f EXCEPT !.pc = "change_insert",
                                                  !.t = now]]
          ELSE /\ inflight' = [inflight EXCEPT ![w] = Idle]
               /\ IF outcome = "stored"
                  THEN /\ records' = update_row(records, row, t)
                       /\ last' = Response("admin_change", f.req, 302, {},
                                           f.req.pk)
                  ELSE /\ records' = records
                       /\ last' = Response("admin_change", f.req, 500, {}, 0)
    /\ UNCHANGED <<cache, now, sent>>

\* obj.save() after an UPDATE of no row: the INSERT, which fails
\* (IntegrityError, answered 500) when a row with the id is there again.
ChangeInsert(w) ==
    /\ inflight[w].pc = "change_insert"
    /\ \E f \in {inflight[w]} :
       \E t \in ClockReads(f.t) :
       \E u \in {v \in ClockReads(f.t) : t <= v} :
       \E row \in {save(f.instance)} :
       \E outcome \in insert_outcomes(row) :
          IF f.req.pk \notin Live(records) /\ outcome = "stored"
          THEN /\ records' = insert_row(records, row, t, u)
               /\ last' = Response("admin_change", f.req, 302, {}, f.req.pk)
          ELSE /\ records' = records
               /\ last' = Response("admin_change", f.req, 500, {}, 0)
    /\ inflight' = [inflight EXCEPT ![w] = Idle]
    /\ UNCHANGED <<cache, now, sent>>

\* The admin add view up to form.is_valid(): get_readonly_fields(obj=None)
\* leaves the content fields editable for every staff member; ip_address
\* and user_agent are read-only and stay NULL.  An invalid form is shown
\* again, and showing it computes days_since_creation of an object that
\* has no created_at: the TypeError is answered 500 (errors holds the
\* fields the form refused).  Whoever is not staff is sent to the login
\* page.
admin_add(w, request) ==
    /\ inflight[w] = Idle
    /\ request.status \in STATUS_CHOICES
    /\ IF ~IsAdminUser(request.user)
       THEN /\ last' = Response("admin_add", request, 302, {}, 0)
            /\ inflight' = inflight
       ELSE \E r \in {form_results(request.data)} :
            \E errors \in {{f \in FieldNames : ~r[f].ok}} :
               IF errors # {}
               THEN /\ last' = Response("admin_add", request, 500, errors, 0)
                    /\ inflight' = inflight
               ELSE /\ last' = last
                    /\ inflight' = [inflight EXCEPT
                           ![w] = [pc |-> "add_save", req |-> request,
                                   t |-> now,
                                   instance |->
                                       [actor |-> r.actor.value,
                                        theme |-> r.theme.value,
                                        email |-> r.email.value,
                                        name_company |-> r.name_company.value,
                                        name_person |-> r.name_person.value,
                                        message |-> r.message.value,
                                        status |-> request.status,
                                        ip_address |-> Null,
                                        user_agent |-> Null]]]
    /\ UNCHANGED <<records, cache, now, sent>>

\* save_model of the add view: obj.save() cleans the instance, reads the
\* clock for created_at and then for updated_at and issues the INSERT,
\* which gives the row its id; response_add redirects.
AddSave(w) ==
    /\ inflight[w].pc = "add_save"
    /\ \E f \in {inflight[w]} :
       \E t \in ClockReads(f.t) :
       \E u \in {v \in ClockReads(f.t) : t <= v} :
       \E row \in {save([id |-> Len(records) + 1,
                          created_at |-> t,
                          updated_at |-> u,
                          actor |-> f.instance.actor,
                          theme |-> f.instance.theme,
                          email |-> f.instance.email,
                          name_company |-> f.instance.name_company,
                          name_person |-> f.instance.name_person,
                          message |-> f.instance.message,
                          status |-> f.instance.status,
                          ip_address |-> f.instance.ip_address,
                          user_agent |-> f.instance.user_agent])} :
       \E outcome \in insert_outcomes(row) :
          IF outcome = "stored"
          THEN /\ records' = Append(records, row)
               /\ last' = Response("admin_add", f.req, 302, {}, row.id)
          ELSE /\ records' = records
               /\ last' = Response("admin_add", f.req, 500, {}, 0)
    /\ inflight' = [inflight EXCEPT ![w] = Idle]
    /\ UNCHANGED <<cache, now, sent>>

\* The 'delete selected' action of the changelist: has_delete_permission
\* offers it to superusers only; for other staff the action is no choice
\* of the form and the changelist redirects to itself with nothing
\* deleted; whoever is not staff is sent to the login page; after a
\* delete the answer is a redirect to the changelist.
admin_delete(request) ==
    /\ IF ~IsAdminUser(request.user)
       THEN /\ last' = Response("admin_delete", request, 302, {}, 0)
            /\ records' = records
       ELSE IF ~IsSuperuser(request.user)
       THEN /\ last' = Response("admin_delete", request, 302, {}, 0)
            /\ records' = records
       ELSE /\ last' = Response("admin_delete", request, 302, {}, 0)
            /\ records' = [i \in 1..Len(records) |->
                             IF i \in request.ids THEN Deleted ELSE records[i]]
    /\ UNCHANGED <<cache, now, sent, inflight>>

(***************************************************************************)
(* Initial state and inputs                                                *)
(***************************************************************************)

Init ==
    /\ records = <<>>
    /\ cache = <<>>
    /\ now = 0
    /\ last = Response("none", NoRequest, 0, {}, 0)
    /\ sent = <<>>
    /\ inflight = [w \in Workers |-> Idle]

X(n) == <<R("x", n)>>

ValidData ==
    [actor |-> "author", theme |-> X(5), email |-> <<"j", "@", "ex.org">>,
     name_company |-> None, name_person |-> X(2), message |-> X(10)]

\* A client with a valid CSRF token.
Direct(user, ip, ua) ==
    [user |-> user, xff |-> <<>>, remote |-> ip, ua |-> ua, csrf |-> TRUE]
Forwarded(user, xff, ip, ua) ==
    [user |-> user, xff |-> xff, remote |-> ip, ua |-> ua, csrf |-> TRUE]
\* The same client sending no CSRF token.
NoToken(client) == [client EXCEPT !.csrf = FALSE]

With(client, data) == [data |-> data] @@ client

\* The steps of the create requests being handled.
CreateSteps ==
    \/ \E w \in Workers : AnonGet(w)
    \/ \E w \in Workers : AnonSet(w)
    \/ \E w \in Workers : AuthGet(w)
    \/ \E w \in Workers : AuthSet(w)
    \/ \E w \in Workers : Validate(w)
    \/ \E w \in Workers : Save(w)

(***************************************************************************)
(* Create requests of few clients, over an hour                            *)
(***************************************************************************)

\* Bounds of the behaviours explored.
MaxRecords == 2
MaxTime == 61
MaxSent == 2

\* Themes whose stored form is the validated form, and themes that
\* save() rewrites (a bare ">" is stored as "&gt;").
SpecThemes == {X(5), <<R("x", 4), R(">", 1)>>}

\* The direct client writes its address in lower case, the proxied one
\* with capitals and a trailing blank; a third client sends a
\* forwarded-for header that begins with a comma (", 1.1.1.1").
SpecRequests ==
    {With(Direct("anon", "1.1.1.1", "ua1"),
          [ValidData EXCEPT !.theme = th, !.email = <<"j", "@", "ex.org">>]) :
        th \in SpecThemes}
    \cup
    {With(Forwarded("anon", <<"2.2.2.2", "1.1.1.1">>, "1.1.1.1", "ua2"),
          [ValidData EXCEPT !.theme = th, !.email = <<"J", "@", "Ex.org", " ">>]) :
        th \in SpecThemes}
    \cup
    {With(Forwarded("anon", <<"", "1.1.1.1">>, "1.1.1.1", "ua1"),
          [ValidData EXCEPT !.theme = X(5), !.email = <<"k", "@", "ex.org">>])}

\* The requests that arrive while another request is being handled.
SpecOverlapping ==
    {r \in SpecRequests : r.data.theme = X(5) /\ r.xff = <<>>}

Next ==
    \/ \E w \in Workers, request \in SpecRequests :
          /\ Free(w)
          /\ Busy => request \in SpecOverlapping
          /\ Len(records) < MaxRecords
          /\ Begun(Identity(request)) < MaxSent
          /\ Begin(w, request)
    \/ CreateSteps
    \/ \E d \in TickSteps : now + d <= MaxTime /\ Tick(d)

Spec == Init /\ [][Next]_vars

(***************************************************************************)
(* Administration: creates, API updates, admin actions and edits           *)
(***************************************************************************)

MaxRecordsAdmin == 2
MaxTimeAdmin == 60
MaxSentAdmin == 1

AdminThemes == {<<R("x", 4), R(">", 1)>>}
\* The submissions leave the company blank, which the API stores as ''.
AdminRequests ==
    {With(Direct("anon", "1.1.1.1", "ua1"),
          [ValidData EXCEPT !.theme = th, !.name_company = <<>>]) :
        th \in AdminThemes}

AddRequests ==
    {[user |-> "staff", status |-> "completed",
      data |-> [ValidData EXCEPT !.theme = <<R(TagU, 1), R("x", 4)>>]]}

UpdateBodies ==
    {[status |-> Absent, theme |-> X(6)],
     [status |-> "completed", theme |-> None],
     [status |-> "bogus", theme |-> None]}

UpdateRequests ==
    [user : {"staff"}, pk : {1}, data : UpdateBodies]
    \cup
    [user : {"staff"}, pk : {MaxRecordsAdmin + 1},
     data : {[status |-> "completed", theme |-> None]}]
    \cup
    [user : {"alice"}, pk : {1}, data : {[status |-> "completed", theme |-> None]}]

MarkRequests ==
    {[user |-> "staff", status |-> "rejected", ids |-> {1, 2}],
     [user |-> "staff", status |-> "new", ids |-> {1}],
     [user |-> "staff", status |-> "completed", ids |-> {1}]}
    \cup
    [user : {"alice"}, status : {"rejected"}, ids : {{1}}]

ChangeRequests ==
    [user : {"staff"}, pk : {1, MaxRecordsAdmin + 1}, theme : {X(6)},
     status : {"rejected"}]
    \cup
    [user : {"root"}, pk : {1},
     theme : {<<R(TagB, 1), R("x", 4)>>, X(2)}, status : {"completed"}]

DeleteRequests ==
    [user : {"staff", "root"}, ids : {{1}}]

\* The requests that arrive while another request is being handled.
AdminOverlapping ==
    [user : {"staff"}, pk : {1}, theme : {X(6)}, status : {"rejected"}]
    \cup
    [user : {"staff"}, pk : {1}, data : {[status |-> "completed", theme |-> None]}]

AdminTickSteps == {60}

NextAdmin ==
    \/ \E w \in Workers, request \in AdminRequests :
          /\ Free(w)
          /\ ~Busy
          /\ Len(records) < MaxRecordsAdmin
          /\ Begun(Identity(request)) < MaxSentAdmin
          /\ Begin(w, request)
    \/ CreateSteps
    \/ \E w \in Workers, request \in UpdateRequests :
          /\ Free(w)
          /\ Busy => request \in AdminOverlapping
          /\ UpdateGet(w, request)
    \/ \E w \in Workers : UpdateSave(w)
    \/ \E w \in Workers : UpdateInsert(w)
    \/ \E request \in MarkRequests : mark_as(request)
    \/ \E w \in Workers, request \in ChangeRequests :
          /\ Free(w)
          /\ Busy => request \in AdminOverlapping
          /\ ChangeGet(w, request)
    \/ \E w \in Workers : ChangeSave(w)
    \/ \E w \in Workers : ChangeInsert(w)
    \/ \E w \in Workers, request \in AddRequests :
          /\ Free(w)
          /\ ~Busy
          /\ Len(records) < MaxRecordsAdmin
          /\ admin_add(w, request)
    \/ \E w \in Workers : AddSave(w)
    \/ \E request \in DeleteRequests : admin_delete(request)
    \/ \E d \in AdminTickSteps :
          /\ \A w \in Workers : inflight[w].pc \in {"idle", "add_save"}
          /\ now + d <= MaxTimeAdmin
          /\ Tick(d)

SpecAdmin == Init /\ [][NextAdmin]_vars

(***************************************************************************)
(* Validation: create requests over a product of field values             *)
(***************************************************************************)

MaxRecordsValid == 1
MaxSentValid == 1
MaxOverlapValid == 1

\* Per field, a value that passes and a value that fails.
ValidThemes == {X(5), <<R("Casino", 1)>>}
ValidEmails == {<<"J", "@", "Ex.org", " ">>, <<"j", "@", "Mailinator.com">>}
ValidPersons == {X(2), <<R("7", 2)>>}
ValidCompanies == {None, X(151)}
ValidMessages == {X(10), X(11)}
ValidActors == {"author", "bogus"}

\* Departures from a valid submission in one field: the length bounds on
\* both sides, markup that sanitization removes, blank and absent values;
\* and in two fields: an unknown actor with a theme or a message whose
\* submitted and sanitized texts fall on different sides of a rule.
EdgeData ==
    {[ValidData EXCEPT !.theme = th] :
        th \in {X(4), X(200), X(201), <<R(TagU, 26)>>, <<R(TagU, 25)>>,
                <<R(TagB, 1), R("x", 3)>>, <<R("x", 4), R(">", 1)>>,
                <<R(" ", 1), R("x", 5), R(" ", 1)>>, <<R(" ", 3)>>,
                <<R("x", 197), R(">", 1)>>, <<R("x", 196), R(">", 1)>>}}
    \cup
    {[ValidData EXCEPT !.name_person = v] :
        v \in {X(1), X(100), X(101), <<R(TagB, 2)>>, <<R("x", 1), R("-", 1), R("x", 1)>>}}
    \cup
    {[ValidData EXCEPT !.name_company = v] :
        v \in {<<>>, <<R(" ", 2)>>, X(150), <<R(TagB, 19)>>, <<R("x", 3), R(">", 1)>>,
               <<R("x", 147), R(">", 1)>>}}
    \cup
    {[ValidData EXCEPT !.message = v] :
        v \in {X(9), <<R(">", 9)>>, <<R(TagU, 2), R("x", 8)>>, <<R(TagB, 10)>>,
               <<R("Casino", 1), R(" ", 1), R("x", 4)>>,
               <<R(TagB, 11)>>, <<R("x", 10), R(" ", 1), R("x", 10)>>,
               <<R("x", 10), R("7", 1990)>>, <<R("x", 10), R("7", 1991)>>,
               <<R("x", 5), R("\n", 11), R("x", 5)>>,
               <<R("x", 5), R("\n", 10), R("x", 5)>>}}
    \cup
    {[ValidData EXCEPT !.email = v] :
        v \in {<<"j">>, <<>>, <<" ">>, <<"j", "@", "@", "mailinator.com">>,
               <<"j", "@", "Mailinator.com", " ">>}}
    \cup
    {[ValidData EXCEPT !.actor = "bogus", !.theme = <<R(TagU, 26)>>],
     [ValidData EXCEPT !.actor = "bogus", !.message = <<R(">", 9)>>],
     [ValidData EXCEPT !.actor = "bogus",
                       !.message = <<R("x", 5), R("\n", 11), R("x", 5)>>]}

\* The requests of the client, and one that carries no CSRF token.
ValidRequests ==
    {With(Direct("anon", "1.1.1.1", "ua1"), d) :
        d \in [actor : ValidActors, theme : ValidThemes, email : ValidEmails,
               name_company : ValidCompanies, name_person : ValidPersons,
               message : ValidMessages] \cup EdgeData}
    \cup
    {With(NoToken(Direct("anon", "1.1.1.1", "ua1")), ValidData)}

\* The requests that arrive while another request is being handled.
ValidOverlapping ==
    {With(Direct("anon", "1.1.1.1", "ua1"), d) :
        d \in {ValidData, [ValidData EXCEPT !.theme = X(4)]}}

NextValid ==
    \/ \E w \in Workers, request \in ValidRequests :
          /\ Free(w)
          /\ ~Busy
          /\ Len(records) < MaxRecordsValid
          /\ Begun(Identity(request)) < MaxSentValid
          /\ Begin(w, request)
    \/ \E w \in Workers, request \in ValidOverlapping :
          /\ Free(w)
          /\ Busy
          /\ Begun(Identity(request)) < MaxSentValid + MaxOverlapValid
          /\ Begin(w, request)
    \/ CreateSteps

SpecValid == Init /\ [][NextValid]_vars

(***************************************************************************)
(* Rate limiting: many requests from few identities                        *)
(***************************************************************************)

\* Requests per identity, per kind of client.
MaxSentAnon == 6
MaxSentOther == 1
MaxTimeRate == 60
RateTickSteps == {60}

AnonA == Direct("anon", "1.1.1.1", "ua1")
AnonBlocked == Direct("anon", "6.6.6.6", "ua1")
Alice == Direct("alice", "2.2.2.2", "ua1")

\* A submission no stored record duplicates: its theme is longer than
\* every theme submitted so far.
FreshData == [ValidData EXCEPT !.theme = X(ThemeMin + Len(records))]
InvalidData == [ValidData EXCEPT !.theme = X(4)]

\* A client that writes the text of its forwarded-for header itself.
AnonForged == Forwarded("anon", <<"auth_1.1.1.1">>, "9.9.9.9", "ua1")

\* The requests of the other clients, of which one is sent.
OtherRequests ==
    {With(AnonBlocked, FreshData), With(Alice, FreshData),
     With(AnonForged, InvalidData)}

NextRate ==
    \/ \E w \in Workers :
          /\ Free(w)
          /\ Begun(Identity(AnonA)) < MaxSentAnon
          /\ Begin(w, With(AnonA, InvalidData))
    \/ \E w \in Workers, request \in OtherRequests :
          /\ Free(w)
          /\ ~Busy
          /\ \A r \in OtherRequests : Begun(Identity(r)) < MaxSentOther
          /\ Begin(w, request)
    \/ CreateSteps
    \/ \E d \in RateTickSteps : ~Busy /\ now + d <= MaxTimeRate /\ Tick(d)

SpecRate == Init /\ [][NextRate]_vars

(***************************************************************************)
(* Simultaneous create requests of one client within one minute            *)
(***************************************************************************)

\* Requests of the identity.
MaxSentConc == 6

ConcRequests ==
    {With(AnonA, FreshData)}

NextConc ==
    \/ \E w \in Workers, request \in ConcRequests :
          /\ Free(w)
          /\ Begun(Identity(request)) < MaxSentConc
          /\ Begin(w, request)
    \/ \E w \in Workers :
          /\ Free(w)
          /\ ~Busy
          /\ Begun(Identity(With(AnonForged, InvalidData))) < MaxSentOther
          /\ Begin(w, With(AnonForged, InvalidData))
    \/ CreateSteps

SpecConc == Init /\ [][NextConc]_vars

(***************************************************************************)
(* Claims                                                                  *)
(***************************************************************************)

\* C8 (as claimed): in every reachable state, every stored theme, person
\* name and company is free of HTML tags, and every stored message holds
\* no tag outside p, br, strong, em, u.
C8_NoHtmlInStorage ==
    \A i \in Live(records) :
        /\ ~HasTag(records[i].theme, TagTokens)
        /\ ~HasTag(records[i].name_person, TagTokens)
        /\ ~HasTag(records[i].name_company, TagTokens)
        /\ ~HasTag(records[i].message, TagTokens \ MessageAllowedTags)

\* C9 (as claimed): an update sent by an administrator for an existing
\* record with a status among new, completed, rejected succeeds, and the
\* stored status is then the submitted one.  The step looked at is the
\* statement of save() with which the request ends.
C9_AdminUpdateSetsStatus ==
    [][\A w \in Workers :
         (/\ UpdateSave(w) \/ UpdateInsert(w)
          /\ inflight'[w] = Idle
          /\ inflight[w].req.data.status \in STATUS_CHOICES)
         => (/\ last'.code = 200
             /\ records'[inflight[w].req.pk] # Deleted
             /\ records'[inflight[w].req.pk].status
                    = inflight[w].req.data.status)]_vars

SameButStatusAndTimes(a, b) ==
    /\ a # Deleted
    /\ b # Deleted
    /\ [a EXCEPT !.status = "", !.created_at = 0, !.updated_at = 0]
           = [b EXCEPT !.status = "", !.created_at = 0, !.updated_at = 0]

\* C10: an administrator's update of an existing record with a status
\* outside new, completed, rejected is answered 400, nothing is written
\* and the request ends there; and whatever other fields the body of an
\* update carries, they are ignored: the row an update writes holds, in
\* every column but status and the two timestamps, the value the request
\* read from the table, and no other row is touched (a statement of the
\* update that writes nothing leaves the table as it is).
C10_UpdateRejectsUnknownStatus ==
    [][\A w \in Workers :
         /\ (/\ last'.op = "update"
             /\ UpdateGet(w, last'.req)
             /\ IsAdminUser(last'.req.user)
             /\ last'.req.pk \in Live(records)
             /\ last'.req.data.status # Absent
             /\ last'.req.data.status \notin STATUS_CHOICES)
            => (last'.code = 400 /\ records' = records /\ inflight' = inflight)
         /\ (UpdateSave(w) \/ UpdateInsert(w))
            => /\ Len(records') = Len(records)
               /\ \A i \in 1..Len(records) :
                      i # inflight[w].req.pk => records'[i] = records[i]
               /\ \/ records'[inflight[w].req.pk] = records[inflight[w].req.pk]
                  \/ SameButStatusAndTimes(records'[inflight[w].req.pk],
                                           inflight[w].instance)]_vars

\* C10 witness: an administrator's update with an unknown status was
\* answered 400 while the addressed record, whose stored theme differs
\* from its validated form, is in the store.
C10_Witness ==
    /\ last.op = "update"
    /\ last.code = 400
    /\ IsAdminUser(last.req.user)
    /\ last.req.data.status = "bogus"
    /\ last.req.pk \in Live(records)
    /\ records[last.req.pk].theme = <<R("x", 4), R("&gt;", 1)>>

\* Two create requests submit the same thing: the same theme, and the
\* same e-mail address up to letter case and surrounding whitespace.
SameSubmission(a, b) ==
    /\ a.data.theme = b.data.theme
    /\ Trim(LowerAddr(a.data.email)) = Trim(LowerAddr(b.data.email))

\* The record is the only one stored with its e-mail address and theme.
OnlyRecordOf(id) ==
    \A i \in 1..Len(records) :
        i # id => \/ records[i].email # records[id].email
                  \/ records[i].theme # records[id].theme

\* C2 (as claimed): when a valid create request is handled after an
\* accepted one with the same e-mail and theme, the two being the only
\* ones with that e-mail and theme, its duplicate check rejects it with
\* nothing persisted if it is made within 60 minutes of the first
\* record's creation, and lets it through if the request arrived 61
\* minutes or more after, whatever the theme, also when save() stores the
\* theme in another form.
C2_DuplicateWindow ==
    [][\A w \in Workers :
         (/\ Validate(w)
          /\ last.op = "create"
          /\ last.code = 201
          /\ OnlyRecordOf(last.id)
          /\ SameSubmission(last.req, inflight[w].req))
         => /\ now - records[last.id].created_at <= DuplicateWindow
               => /\ inflight'[w] = Idle
                  /\ last'.code = 400
                  /\ records' = records
            /\ inflight[w].arrived - records[last.id].created_at
                   > DuplicateWindow
               => inflight'[w] # Idle /\ inflight'[w].pc = "save"]_vars

\* The field rules as specified: the value is sanitized (strictly, or
\* with the message's allow-list) and trimmed, and the length, charset,
\* spam-word and repeated-character rules are applied to that text.
ThemeRuleFails(raw) ==
    LET clean == Strip(strip_tags(raw))
    IN \/ StrLen(clean) < ThemeMin
       \/ StrLen(clean) > ThemeMax
       \/ \E i \in 1..Len(clean) : LowerTok(clean[i].c) \in spam_words

PersonRuleFails(raw) ==
    LET clean == Strip(strip_tags(raw))
    IN \/ StrLen(clean) < PersonMin
       \/ StrLen(clean) > PersonMax
       \/ \E i \in 1..Len(clean) : clean[i].c \notin NameTokens

CompanyRuleFails(raw) ==
    /\ raw # None
    /\ StrLen(Strip(strip_tags(raw))) > CompanyMax

MessageRuleFails(raw) ==
    LET clean == Strip(bleach_clean(raw, MessageAllowedTags))
    IN \/ StrLen(clean) < MessageMin
       \/ StrLen(clean) > MessageMax
       \/ \E i \in 1..Len(clean) : LowerTok(clean[i].c) \in spam_words
       \/ \E i \in 1..Len(clean) :
             Len(clean[i].c) = 1 /\ clean[i].n > RepeatMin

EmailRuleFails(raw) ==
    \/ ~EmailValidator(Trim(raw))
    \/ LowerTok(Trim(raw)[3]) \in suspicious_domains

FailingFields(data) ==
    {f \in FieldNames :
        CASE f = "actor" -> data.actor \notin ACTOR_CHOICES
          [] f = "theme" -> ThemeRuleFails(data.theme)
          [] f = "email" -> EmailRuleFails(data.email)
          [] f = "name_company" -> CompanyRuleFails(data.name_company)
          [] f = "name_person" -> PersonRuleFails(data.name_person)
          [] f = "message" -> MessageRuleFails(data.message)}

\* C7 (as claimed): every create request that the rate limiter admits,
\* that comes from no blocked address, and in which some field fails its
\* length, charset or spam rule is answered 400 with an error report whose
\* field names are exactly the failing fields, all of them, and leaves the
\* store as it was, whatever other request is handled at the same time.
C7_ErrorsNameExactlyTheFailingFields ==
    [][\A w \in Workers :
         (/\ Validate(w)
          /\ get_client_ip(inflight[w].req) \notin BLOCKED_IPS
          /\ FailingFields(inflight[w].req.data) # {})
         => (/\ inflight'[w] = Idle
             /\ last'.req = inflight[w].req
             /\ last'.code = 400
             /\ last'.errors = FailingFields(inflight[w].req.data)
             /\ records' = records)]_vars

\* The pool a request draws on, and the requests of its identity the
\* trailing 60 minutes hold.
Limit(request) == IF IsAuthenticated(request.user) THEN AuthRate ELSE AnonRate
Accepted(request) == CountOutcome(sent, Identity(request), now, {"created"})
AtLimit(key) ==
    CountOutcome(sent, key, now, {"created"})
        >= (IF key[2] = NoKey THEN AuthRate ELSE AnonRate)

\* C3: once an identity (the client IP of an anonymous request, the user of
\* an authenticated one) has had 5, respectively 10, submissions accepted
\* within the past hour, its next create request is answered 429, which is
\* no validation answer (400), and nothing is persisted; a create request
\* of another identity, itself below its limit, is not answered 429 while
\* the first identity is at its limit.  The step looked at is the one
\* where the throttles give their verdict on a request that arrived, and
\* is judged, with the limit reached.
C3_QuotaPools ==
    [][\A w \in Workers :
        AuthSet(w)
        => /\ (/\ inflight[w].seen >= Limit(inflight[w].req)
               /\ Accepted(inflight[w].req) >= Limit(inflight[w].req))
              => /\ inflight'[w] = Idle
                 /\ last' = Response("create", inflight[w].req, 429, {}, 0)
                 /\ records' = records
           /\ (/\ \E key \in DOMAIN sent :
                     key # Identity(inflight[w].req) /\ AtLimit(key)
               /\ CountOutcome(sent, Identity(inflight[w].req), now,
                               Outcomes) = 0)
              => inflight'[w] # Idle]_vars

\* C5 as stated: an anonymous client IP that has had fewer than 5
\* submissions accepted in the trailing 60 minutes is never answered 429,
\* however many of its earlier requests were rejected for validation,
\* duplicate or blocklist reasons.
C5_QuotaCountsAcceptedOnly ==
    [][\A w \in Workers :
         (/\ AuthSet(w)
          /\ ~IsAuthenticated(inflight[w].req.user)
          /\ Accepted(inflight[w].req) < AnonRate)
         => inflight'[w] # Idle]_vars

\* The events of the record: an identity and a place in its entries.
SentEvents ==
    UNION {{<<key, i>> : i \in 1..Len(sent[key])} : key \in DOMAIN sent}

\* The other create requests counted under a cache key of the request of
\* worker w that the rate limiter saw within the 60 minutes before that
\* request arrived, or since: those answered in that time, whatever the
\* answer, and those being handled that have passed the first throttle's
\* read.
SeenByLimiter(w) ==
    LET me == Identity(inflight[w].req)
        since == inflight[w].arrived - ThrottleDuration
    IN Cardinality({p \in SentEvents :
                       /\ SharesKey(p[1], me)
                       /\ sent[p[1]][p[2]].o \in Answers \ {"csrf"}
                       /\ sent[p[1]][p[2]].t > since})
       + Cardinality({v \in Workers \ {w} :
                         /\ inflight[v].pc \in CreatePcs \ {"anon_get"}
                         /\ SharesKey(Identity(inflight[v].req), me)})

\* C5 amended: the anonymous quota counts every create request that
\* reached the rate limiter, whatever answer the request then got; a
\* create request of an anonymous client is answered 429 only if the rate
\* limiter saw 5 or more other create requests counted under one of its
\* cache keys (requests of its address, or requests whose address or
\* user id makes the same key text) within the 60 minutes before the
\* request arrived or while it was handled.
C5_QuotaCountsEveryRequest ==
    [][\A w \in Workers :
         (/\ AuthSet(w)
          /\ ~IsAuthenticated(inflight[w].req.user)
          /\ SeenByLimiter(w) < AnonRate)
         => inflight'[w] # Idle]_vars

\* Four requests of the hour were rejected for validation and the rate
\* limiter has let the fifth request of the same client through.
C5_Witness ==
    /\ CountOutcome(sent, Identity(AnonA), now, {"invalid"}) = 4
    /\ CountOutcome(sent, Identity(AnonA), now, {"admitted"}) = 5
    /\ \E w \in Workers :
          /\ inflight[w].pc = "validate"
          /\ inflight[w].req = With(AnonA, InvalidData)

\* C6: a create request whose client IP is in the blocklist is answered
\* 403 whatever the rate-limit state of that IP, persists no record and
\* leaves the rate limiter's histories as they were.
C6_BlocklistBeforeRateLimiter ==
    [][\A w \in Workers :
         (/\ inflight[w].pc \in CreatePcs
          /\ get_client_ip(inflight[w].req) \in BLOCKED_IPS
          /\ (AnonSet(w) \/ AuthSet(w) \/ Validate(w) \/ Save(w)))
         => /\ cache' = cache
            /\ records' = records
            /\ inflight'[w] = Idle => last'.code = 403]_vars

\* C1: under any interleaving of simultaneous create requests, the store
\* never holds two records with the same email and theme whose creation
\* times are less than 1 hour apart.
C1_NoDuplicateWithinAnHour ==
    \A i, j \in Live(records) :
        (/\ i # j
         /\ records[i].email = records[j].email
         /\ records[i].theme = records[j].theme
         /\ records[i].created_at <= records[j].created_at)
        => records[j].created_at - records[i].created_at >= DuplicateWindow

\* C4: under any interleaving of simultaneous create requests from one
\* anonymous client IP, the requests the rate limiter admitted within the
\* trailing 60 minutes never number more than 5.
C4_AdmittedWithinLimit ==
    \A request \in ConcRequests :
        CountOutcome(sent, Identity(request), now, {"admitted"})
            <= AnonRate

\* C11: a stored record's status changes only in a step performed by an
\* administrator (the save of an API update, an admin action or the save
\* of an admin edit); no step of an anonymous or non-administrator caller,
\* a create request included, changes the status of an existing record;
\* and an administrator's status action puts every selected record into
\* the chosen status whatever status it had.
C11_StatusChangesOnlyByAdministrator ==
    [][/\ (\E i \in Live(records) \cap Live(records') :
              records'[i].status # records[i].status)
          => \/ \E w \in Workers :
                   /\ (UpdateSave(w) \/ ChangeSave(w))
                   /\ inflight[w].req.user \in {"staff", "root"}
             \/ /\ last'.op = "mark_as"
                /\ mark_as(last'.req)
                /\ last'.req.user \in {"staff", "root"}
       /\ (/\ last'.op = "mark_as"
           /\ mark_as(last'.req)
           /\ last'.req.user \in {"staff", "root"})
          => \A i \in last'.req.ids \cap Live(records) :
                 records'[i].status = last'.req.status]_vars

\* An administrator's status action has moved record 1 to completed, a
\* status the record did not have when a request still being handled
\* read it as rejected (the record was submitted as new).
C11_Witness ==
    /\ last.op = "mark_as"
    /\ last.req.status = "completed"
    /\ last.req.user = "staff"
    /\ 1 \in Live(records)
    /\ records[1].status = "completed"
    /\ records[1].ip_address # Null
    /\ \E w \in Workers :
          /\ inflight[w].pc = "update_save"
          /\ inflight[w].req.pk = 1
          /\ inflight[w].instance.status = "rejected"

\* C12 (as claimed): every successful create request persists exactly one
\* new record, with status new, the resolved client IP (the first entry of the
\* forwarded-for header when there is one, else the peer address), the
\* request's user agent and the submitted email lowercased and trimmed;
\* the response carries the id of that record, which no other record has.
\* This holds whatever other request is handled at the same time.
C12_CreatePersistsTheSubmission ==
    [][\A w \in Workers :
         (Save(w) /\ last'.code = 201)
         => /\ Len(records') = Len(records) + 1
            /\ SubSeq(records', 1, Len(records)) = records
            /\ LET r == records'[Len(records')]
                   req == inflight[w].req
               IN /\ last'.req = req
                  /\ r.status = "new"
                  /\ r.ip_address =
                         (IF req.xff # <<>> THEN req.xff[1] ELSE req.remote)
                  /\ r.user_agent = req.ua
                  /\ r.email = Trim(LowerAddr(req.data.email))
                  /\ last'.id = r.id
                  /\ \A i \in Live(records) : records[i].id # r.id]_vars

\* Some single character occurs k or more times in a row in t.
HasRunOf(t, k) == \E i \in 1..Len(t) : Len(t[i].c) = 1 /\ t[i].n >= k

\* The message as sanitized and trimmed for validation.
SanitizedMessage(request) ==
    IF request.data.message = None THEN <<>>
    ELSE Strip(bleach_clean(Strip(request.data.message), MessageAllowedTags))

\* C13: a create request that reaches validation is answered with a field
\* error on message whenever its sanitized, trimmed message holds some
\* single character 11 or more times in a row; and a message of admissible
\* length, as submitted and as sanitized, without spam word, whose longest
\* run of one character is 10 or fewer gets no error on message.
C13_RepeatedCharacters ==
    [][\A w \in Workers :
         (/\ Validate(w)
          /\ get_client_ip(inflight[w].req) \notin BLOCKED_IPS)
         => LET m == SanitizedMessage(inflight[w].req)
            IN /\ HasRunOf(m, 11)
                  => /\ inflight'[w] = Idle
                     /\ last'.code = 400
                     /\ "message" \in last'.errors
               /\ (/\ ~HasRunOf(m, 11)
                   /\ inflight[w].req.data.message # None
                   /\ StrLen(Strip(inflight[w].req.data.message)) >= MessageMin
                   /\ StrLen(Strip(inflight[w].req.data.message)) <= MessageMax
                   /\ StrLen(m) >= MessageMin
                   /\ StrLen(m) <= MessageMax
                   /\ ~ContainsSpam(m)
                   /\ inflight'[w] = Idle)
                  => "message" \notin last'.errors]_vars

\* What a status change must leave alone.
ContentOf(r) ==
    <<r.id, r.created_at, r.actor, r.theme, r.email, r.name_company,
      r.name_person, r.message, r.ip_address, r.user_agent>>

\* C14 (as claimed): the statements with which a status update through the
\* API is saved, and an admin status action, add or remove no record and change
\* no field of any record other than status and updated_at: ip_address
\* and user_agent stay as captured at creation, and theme, name_person,
\* name_company, message and email keep their stored values although
\* save() cleans them again; cleaning a stored record again yields the
\* same record.
C14_StatusChangeKeepsContent ==
    [][(\/ \E w \in Workers : UpdateSave(w) \/ UpdateInsert(w)
        \/ last'.op = "mark_as" /\ mark_as(last'.req))
       => /\ Len(records') = Len(records)
          /\ Live(records') = Live(records)
          /\ \A i \in Live(records) :
                 /\ ContentOf(records'[i]) = ContentOf(records[i])
                 /\ save(records'[i]) = records'[i]]_vars

\* The theme as strictly sanitized and trimmed for validation.
SanitizedTheme(request) == Strip(strip_tags(Strip(request.data.theme)))

\* C15: the theme length rule is applied to the sanitized, trimmed value
\* and not to the raw input: a create request that reaches validation,
\* in whose other fields the serializer finds no error and which
\* duplicates nothing, is accepted
\* for every theme whose sanitized, trimmed text has length 5 to 200 and
\* holds no spam word, whatever the length of the raw theme; likewise for
\* every message whose sanitized, trimmed text has length 10 to 2000 and
\* holds neither a spam word nor a repeated character.
C15_LengthRuleOnSanitizedValue ==
    [][\A w \in Workers :
         (/\ Validate(w)
          /\ get_client_ip(inflight[w].req) \notin BLOCKED_IPS
          /\ records = <<>>)
         => LET data == inflight[w].req.data
                th == SanitizedTheme(inflight[w].req)
                m == SanitizedMessage(inflight[w].req)
            IN /\ (/\ field_errors(data) \subseteq {"theme"}
                   /\ StrLen(th) >= ThemeMin
                   /\ StrLen(th) <= ThemeMax
                   /\ ~ContainsSpam(th))
                  => inflight'[w] # Idle
               /\ (/\ field_errors(data) \subseteq {"message"}
                   /\ StrLen(m) >= MessageMin
                   /\ StrLen(m) <= MessageMax
                   /\ ~ContainsSpam(m)
                   /\ ~HasRunOf(m, 11))
                  => inflight'[w] # Idle]_vars

\* C16: every stored record satisfies the field bounds as stored: theme of
\* 5 to 200 characters, name_person of 2 to 100, message of 10 to 2000,
\* name_company absent or of at most 150; the cleaning done by save()
\* after validation makes no stored value longer than its bound.
C16_StoredFieldBounds ==
    \A i \in Live(records) :
        LET r == records[i]
        IN /\ StrLen(r.theme) >= ThemeMin
           /\ StrLen(r.theme) <= ThemeMax
           /\ StrLen(r.name_person) >= PersonMin
           /\ StrLen(r.name_person) <= PersonMax
           /\ StrLen(r.message) >= MessageMin
           /\ StrLen(r.message) <= MessageMax
           /\ Truthy(r.name_company) => StrLen(r.name_company) <= CompanyMax

====
